---- MODULE Spec2Model ----
(***************************************************************************)
(* A model of three gunpowder pipeline nodes:                              *)
(*   Crop            (gunpowder/nodes/crop.py)                             *)
(*   NormalizeTo     (gunpowder/nodes/normalize_to.py)                     *)
(*   RejectConstant  (gunpowder/nodes/reject_constant.py)                  *)
(* Each node has its own variables, initial condition, actions and         *)
(* specification (SpecCrop, SpecNorm, SpecReject, LiveSpecReject); the     *)
(* variables of the other nodes are held still.                            *)
(***************************************************************************)
EXTENDS Integers, Sequences, FiniteSets

VARIABLES
    \* ---- Crop ----
    crop_pc,        \* "new" | "constructed" | "init_error" | "published" | "setup_error"
    crop_self,      \* the node's fields: roi, fraction_negative, ... (None when unset)
    crop_error,     \* the exception raised by __init__ or setup, "" when none
    upstream_roi,   \* self.spec[self.key].roi as provided by upstream
    spec_roi,       \* the roi published by self.updates(self.key, spec), None before
    \* ---- NormalizeTo ----
    norm_pc,        \* "new" | "ready" | "processed" | "skipped" | "error"
    norm_self,      \* the node's fields
    norm_batch,     \* the governed array of the batch: present, data dtype, data, spec dtype
    upstream_array, \* the governed array as upstream delivered it (never changed)
    norm_error,     \* the exception raised by process, "" when none
    \* ---- RejectConstant ----
    rej_self,       \* the node's fields: min_coefvar, reject_probability
    upstream,       \* the batches upstream returns to a provide call, in order
    rng,            \* the process-wide random source: <<seed, draws since seeding>>
    call            \* per provide call: pc, request, counters, the batch at hand

cropvars == <<crop_pc, crop_self, crop_error, upstream_roi, spec_roi>>
normvars == <<norm_pc, norm_self, norm_batch, upstream_array, norm_error>>
rejvars  == <<rej_self, upstream, rng, call>>
vars     == <<cropvars, normvars, rejvars>>

\* Python's None. Tuples (coordinates, fractions, rois) are sequences, so the
\* empty sequence is a value none of them takes.
None == <<>>

(***************************************************************************)
(* Geometry: Coordinate and Roi                                            *)
(***************************************************************************)

\* The model's regions are two-dimensional.
Axes == {1, 2}

\* Fractions are multiples of 1/FracDen.
FracDen == 4

\* Margins per axis range over 0..MaxMargin, upstream extents over 1..MaxExtent.
MaxMargin == 2
MaxExtent == 3

\* int(x / d), Python's truncation toward zero
TruncDiv(x, d) == IF x >= 0 THEN x \div d ELSE -((-x) \div d)

\* Coordinate.__add__: element-wise
CoordAdd(a, b) == [i \in Axes |-> a[i] + b[i]]

\* Coordinate.__neg__: element-wise
CoordNeg(a) == [i \in Axes |-> -a[i]]

\* Coordinate.__mul__ with a tuple of floats: element-wise product, each
\* component converted with int() by Coordinate's constructor.
CoordMul(a, f) == [i \in Axes |-> TruncDiv(a[i] * f[i], FracDen)]

\* Coordinate is a tuple: a >= b is Python's lexicographic tuple ordering.
CoordGE(a, b) == \/ a[1] > b[1]
                 \/ a[1] = b[1] /\ a[2] >= b[2]

\* A Roi is <<offset, shape>>.
Roi(offset, shape) == <<offset, shape>>
get_offset(r) == r[1]
get_shape(r) == r[2]
get_end(r) == CoordAdd(r[1], r[2])

\* Roi.grow(amount_neg, amount_pos): the low face moves out by amount_neg, the
\* high face by amount_pos.
grow(r, amount_neg, amount_pos) ==
    Roi(CoordAdd(get_offset(r), CoordNeg(amount_neg)),
        CoordAdd(get_shape(r), CoordAdd(amount_neg, amount_pos)))

\* Roi.contains(other)
contains(r, other) ==
    \A i \in Axes : /\ get_offset(other)[i] >= get_offset(r)[i]
                    /\ get_end(other)[i] <= get_end(r)[i]

(***************************************************************************)
(* Crop                                                                    *)
(***************************************************************************)

Margins == [Axes -> 0..MaxMargin]
Extents == [Axes -> 1..MaxExtent]
Offsets == {[i \in Axes |-> 0], [i \in Axes |-> IF i = 1 THEN 5 ELSE -1]}
Fractions == {[i \in Axes |-> 0],
              [i \in Axes |-> 1],
              [i \in Axes |-> IF i = 1 THEN 2 ELSE 1],
              [i \in Axes |-> IF i = 1 THEN 1 ELSE 3]}
Rois == {Roi([i \in Axes |-> 0], [i \in Axes |-> 1]),
         Roi([i \in Axes |-> IF i = 1 THEN 5 ELSE 0], [i \in Axes |-> 2])}

Opt(S) == S \cup {None}

NoCrop == [roi |-> None, fraction_negative |-> None, fraction_positive |-> None,
           abs_negative |-> None, abs_positive |-> None]

CropIdle == /\ crop_pc = "idle"
            /\ crop_self = NoCrop
            /\ crop_error = ""
            /\ upstream_roi = None
            /\ spec_roi = None

CropInit == /\ crop_pc = "new"
            /\ crop_self = NoCrop
            /\ crop_error = ""
            /\ upstream_roi \in {Roi(o, s) : o \in Offsets, s \in Extents}
            /\ spec_roi = None

\* Crop.__init__, lines 48-61: the exception it raises, "" when it accepts
CropInitError(roi, fn, fp, an, ap) ==
    IF roi # None /\ (fp # None \/ fn # None \/ ap # None \/ an # None)
    THEN "RuntimeError: roi and fraction"
    ELSE IF (fp # None /\ ap # None) \/ (fn # None /\ an # None)
    THEN "RuntimeError: fraction and abs"
    ELSE IF roi = None /\ fp = None /\ fn = None /\ ap = None /\ an = None
    THEN "RuntimeError: nothing given"
    ELSE ""

\* Crop.__init__, lines 63-66: a missing fraction defaults to zeros
DefaultFraction(given, other) ==
    IF given = None /\ other # None THEN [i \in Axes |-> 0] ELSE given

\* Crop.__init__
Crop__init__(roi, fn, fp, an, ap) ==
    /\ crop_pc = "new"
    /\ LET err == CropInitError(roi, fn, fp, an, ap) IN
       IF err # ""
       THEN /\ crop_pc' = "init_error"
            /\ crop_error' = err
            /\ UNCHANGED crop_self
       ELSE /\ crop_pc' = "constructed"
            /\ crop_self' = [roi |-> roi,
                             fraction_negative |-> DefaultFraction(fn, fp),
                             fraction_positive |-> DefaultFraction(fp, fn),
                             abs_negative |-> an,
                             abs_positive |-> ap]
            /\ UNCHANGED crop_error
    /\ UNCHANGED <<upstream_roi, spec_roi>>

\* Crop.setup, lines 96-104: one face's margin; None stands for the TypeError of
\* Coordinate * None
ResolveMargin(abs, fraction, shape) ==
    IF abs # None THEN abs
    ELSE IF fraction # None THEN CoordMul(shape, fraction)
    ELSE None

\* Crop.setup, line 106
MarginsTooLarge(crop_positive, crop_negative, shape) ==
    CoordGE(CoordAdd(crop_positive, crop_negative), shape)

\* Crop.setup, lines 109-111
CroppedRoi(roi, crop_positive, crop_negative) ==
    grow(roi, CoordNeg(crop_positive), CoordNeg(crop_negative))

\* Crop.setup: <<exception, published roi>>
SetupResult(self, roi) ==
    IF self.roi # None
    THEN IF contains(roi, self.roi) THEN <<"", self.roi>>
         ELSE <<"AssertionError: not contained", None>>
    ELSE IF /\ self.fraction_negative # None
            /\ \E i \in Axes :
                 self.fraction_negative[i] + self.fraction_positive[i] >= FracDen
    THEN <<"RuntimeError: fractions", None>>
    ELSE LET crop_positive == ResolveMargin(self.abs_positive,
                                            self.fraction_positive, get_shape(roi))
             crop_negative == ResolveMargin(self.abs_negative,
                                            self.fraction_negative, get_shape(roi))
         IN IF crop_positive = None \/ crop_negative = None
            THEN <<"TypeError", None>>
            ELSE IF MarginsTooLarge(crop_positive, crop_negative, get_shape(roi))
            THEN <<"RuntimeError: margins", None>>
            ELSE <<"", CroppedRoi(roi, crop_positive, crop_negative)>>

\* Crop.setup
CropSetup ==
    /\ crop_pc = "constructed"
    /\ LET res == SetupResult(crop_self, upstream_roi) IN
       IF res[1] # ""
       THEN /\ crop_pc' = "setup_error"
            /\ crop_error' = res[1]
            /\ UNCHANGED spec_roi
       ELSE /\ crop_pc' = "published"
            /\ spec_roi' = res[2]
            /\ UNCHANGED crop_error
    /\ UNCHANGED <<crop_self, upstream_roi>>

CropConstruct ==
    \E roi \in Opt(Rois), fn \in Opt(Fractions), fp \in Opt(Fractions),
       an \in Opt(Margins), ap \in Opt(Margins) :
        Crop__init__(roi, fn, fp, an, ap)

NormIdle == /\ norm_pc = "idle"
            /\ norm_self = None
            /\ norm_batch = None
            /\ upstream_array = None
            /\ norm_error = ""

RejIdle == /\ rej_self = None
           /\ upstream = None
           /\ rng = None
           /\ call = None

CropNext == \/ CropConstruct /\ UNCHANGED <<normvars, rejvars>>
            \/ CropSetup /\ UNCHANGED <<normvars, rejvars>>

InitCrop == CropInit /\ NormIdle /\ RejIdle

SpecCrop == InitCrop /\ [][CropNext]_vars

(***************************************************************************)
(* Crop: properties                                                        *)
(***************************************************************************)

CropNegotiated == crop_pc \in {"published", "setup_error"}

AbsoluteMode == /\ crop_self.roi = None
                /\ crop_self.abs_negative # None
                /\ crop_self.abs_positive # None

\* C1: for absolute margins N (negative face) and P (positive face) with
\* N+P < U.shape on every axis, setup publishes the region with
\* offset = U.offset + N and shape = U.shape - N - P, contained in U.
C1_AbsoluteCropRegion ==
    (/\ CropNegotiated
     /\ AbsoluteMode
     /\ \A i \in Axes : crop_self.abs_negative[i] + crop_self.abs_positive[i]
                          < get_shape(upstream_roi)[i])
    => /\ crop_pc = "published"
       /\ get_offset(spec_roi) = CoordAdd(get_offset(upstream_roi),
                                          crop_self.abs_negative)
       /\ get_shape(spec_roi) =
            CoordAdd(get_shape(upstream_roi),
                     CoordNeg(CoordAdd(crop_self.abs_negative,
                                       crop_self.abs_positive)))
       /\ contains(upstream_roi, spec_roi)

\* C2: in margin mode, whenever setup succeeds the published region has a
\* positive shape on every axis (setup raises when the two margins sum to the
\* upstream extent or more on some axis).
C2_MarginsSmallerThanExtent ==
    (crop_pc = "published" /\ crop_self.roi = None)
    => \A i \in Axes : get_shape(spec_roi)[i] > 0

IsRoiClass == crop_self.roi # None
IsFractionClass == crop_self.fraction_negative # None \/ crop_self.fraction_positive # None
IsAbsClass == crop_self.abs_negative # None \/ crop_self.abs_positive # None

\* C3: a configuration the constructor accepts belongs to exactly one of the
\* three classes: explicit roi, fractional margins, absolute margins.
C3_ExactlyOneClass ==
    crop_pc \in {"constructed", "published", "setup_error"}
    => \/ IsRoiClass /\ ~IsFractionClass /\ ~IsAbsClass
       \/ ~IsRoiClass /\ IsFractionClass /\ ~IsAbsClass
       \/ ~IsRoiClass /\ ~IsFractionClass /\ IsAbsClass

Zeros == [i \in Axes |-> 0]

\* C10: in margin mode, setup of an accepted configuration either publishes or
\* raises one of the two crop configuration errors; with a single absolute
\* margin the other face has zero margin.
C10_SetupNeverFailsOtherwise ==
    (CropNegotiated /\ crop_self.roi = None)
    => /\ crop_pc = "setup_error"
            => crop_error \in {"RuntimeError: fractions", "RuntimeError: margins"}
       /\ (~IsFractionClass /\ crop_pc = "published")
            => get_shape(spec_roi) =
                 CoordAdd(get_shape(upstream_roi),
                          CoordNeg(CoordAdd(
                            IF crop_self.abs_negative = None THEN Zeros
                            ELSE crop_self.abs_negative,
                            IF crop_self.abs_positive = None THEN Zeros
                            ELSE crop_self.abs_positive)))

(***************************************************************************)
(* NormalizeTo                                                             *)
(***************************************************************************)

\* Array values are rationals <<numerator, denominator>> in lowest terms with a
\* positive denominator.
RECURSIVE GCD(_, _)
GCD(a, b) == IF b = 0 THEN a ELSE GCD(b, a % b)

Abs(x) == IF x < 0 THEN -x ELSE x

Rat(n, d) == LET g == GCD(Abs(n), Abs(d))
                 sgn == IF d < 0 THEN -1 ELSE 1
             IN <<sgn * (n \div g), sgn * (d \div g)>>

RAdd(a, b) == Rat(a[1] * b[2] + b[1] * a[2], a[2] * b[2])
RSub(a, b) == Rat(a[1] * b[2] - b[1] * a[2], a[2] * b[2])
RMul(a, b) == Rat(a[1] * b[1], a[2] * b[2])
RDiv(a, b) == Rat(a[1] * b[2], a[2] * b[1])
RLess(a, b) == a[1] * b[2] < b[1] * a[2]
RLeq(a, b) == a[1] * b[2] <= b[1] * a[2]

\* The number of elements of the governed array.
ArrayLen == 2

Indices == 1..ArrayLen

\* ndarray.min(), ndarray.max()
ArrayMin(data) == CHOOSE v \in {data[i] : i \in Indices} :
                    \A i \in Indices : RLeq(v, data[i])
ArrayMax(data) == CHOOSE v \in {data[i] : i \in Indices} :
                    \A i \in Indices : RLeq(data[i], v)

InputValues(dtype) ==
    CASE dtype = "uint8"   -> {Rat(0, 1), Rat(128, 1), Rat(255, 1)}
      [] dtype = "uint16"  -> {Rat(0, 1), Rat(300, 1), Rat(65535, 1)}
      [] dtype = "float32" -> {Rat(-3, 2), Rat(-1, 1), Rat(-1, 2), Rat(0, 1),
                               Rat(1, 2), Rat(1, 1), Rat(3, 2)}
      [] dtype = "int32"   -> {Rat(-7, 1), Rat(7, 1)}

InputDtypes == {"uint8", "uint16", "float32", "int32"}
OutputDtypes == {"float32", "float64", "uint8"}
Intervals == {<<0, 1>>, <<-1, 1>>, <<0, 255>>}

NoNorm == [out_interval |-> None, in_interval |-> None, dtype |-> "",
           attrs |-> {}, out_factor |-> None, out_offset |-> None,
           in_factor |-> None, in_offset |-> None]

NoArray == [present |-> FALSE, dtype |-> "", data |-> None, spec_dtype |-> ""]

NormInit ==
    /\ norm_pc = "new"
    /\ norm_self = NoNorm
    /\ norm_error = ""
    /\ \E present \in BOOLEAN, dt \in InputDtypes :
         \E data \in [Indices -> InputValues(dt)] :
            /\ norm_batch = IF present
                            THEN [present |-> TRUE, dtype |-> dt, data |-> data,
                                  spec_dtype |-> dt]
                            ELSE NoArray
            /\ upstream_array = norm_batch

\* 1 / abs(np.diff(interval)[0])
IntervalFactor(interval) == Rat(1, Abs(interval[2] - interval[1]))

\* np.mean(interval)
IntervalMean(interval) == Rat(interval[1] + interval[2], 2)

\* NormalizeTo.__init__: the attributes it sets
NormalizeTo__init__(out_interval, in_interval, dtype) ==
    /\ norm_pc = "new"
    /\ norm_pc' = "ready"
    /\ norm_self' =
         IF in_interval # None
         THEN [out_interval |-> out_interval, in_interval |-> in_interval,
               dtype |-> dtype,
               attrs |-> {"out_factor", "out_offset", "in_factor", "in_offset"},
               out_factor |-> IntervalFactor(out_interval),
               out_offset |-> IntervalMean(out_interval),
               in_factor |-> IntervalFactor(in_interval),
               in_offset |-> IntervalMean(in_interval)]
         ELSE [out_interval |-> out_interval, in_interval |-> None,
               dtype |-> dtype,
               attrs |-> {"out_factor", "out_offset", "factor"},
               out_factor |-> IntervalFactor(out_interval),
               out_offset |-> IntervalMean(out_interval),
               in_factor |-> None, in_offset |-> None]
    /\ UNCHANGED <<norm_batch, upstream_array, norm_error>>

NormConstruct ==
    \E out_interval \in Intervals, in_interval \in Opt(Intervals),
       dtype \in OutputDtypes :
        NormalizeTo__init__(out_interval, in_interval, dtype)

\* ndarray.astype(dtype) on one value of an array of element type `from`
AsType(v, from, dtype) ==
    IF dtype \in {"float32", "float64"} THEN v
    ELSE \* uint8: fractions are truncated, integers wrap modulo 256
         Rat(TruncDiv(v[1], v[2]) % 256, 1)

\* The element type of array.astype(dtype) * factor, factor a Python float
ProductDtype(dtype) == IF dtype \in {"float32", "float64"} THEN dtype ELSE "float64"

\* process, line 81: the data looks like the output of tanh
LooksLikeTanh(data) ==
    /\ RLess(ArrayMin(data), Rat(0, 1))
    /\ RLeq(Rat(-1, 1), ArrayMin(data))
    /\ RLeq(ArrayMax(data), Rat(1, 1))

\* process, lines 83-84: array.data += 1; array.data /= 2
Remap(data) == [i \in Indices |-> RDiv(RAdd(data[i], Rat(1, 1)), Rat(2, 1))]

\* process, lines 81-84
AfterTanhCheck(data) == IF LooksLikeTanh(data) THEN Remap(data) ELSE data

\* process, line 85
InUnitInterval(data) ==
    /\ RLeq(Rat(0, 1), ArrayMin(data))
    /\ RLeq(ArrayMax(data), Rat(1, 1))

\* AutoFactor with the uint16 range taken as 256*256
AutoFactorOffByOne(dtype) ==
    CASE dtype = "uint8"   -> Rat(1, 255)
      [] dtype = "uint16"  -> Rat(1, 256 * 256)
      [] dtype = "float32" -> Rat(1, 1)
      [] OTHER             -> None

\* process, lines 76-92: the factor chosen for an element type, None when the
\* type is not supported
AutoFactor(dtype) ==
    CASE dtype = "uint8"   -> Rat(1, 255)
      [] dtype = "uint16"  -> Rat(1, 256 * 256 - 1)
      [] dtype = "float32" -> Rat(1, 1)
      [] OTHER             -> None

\* process, line 95
Scaled(data, from, dtype, factor) ==
    [i \in Indices |-> RMul(AsType(data[i], from, dtype), factor)]

\* NormalizeTo.process
NormProcess ==
    /\ norm_pc = "ready"
    /\ IF ~norm_batch.present
       THEN /\ norm_pc' = "skipped"
            /\ UNCHANGED <<norm_batch, norm_error>>
       ELSE LET array == [norm_batch EXCEPT !.spec_dtype = norm_self.dtype] IN
            IF "factor" \notin norm_self.attrs
            THEN /\ norm_pc' = "error"
                 /\ norm_error' = "AttributeError"
                 /\ norm_batch' = array
            ELSE IF AutoFactor(array.dtype) = None
            THEN /\ norm_pc' = "error"
                 /\ norm_error' = "RuntimeError: dtype"
                 /\ norm_batch' = array
            ELSE LET data == IF array.dtype = "float32"
                             THEN AfterTanhCheck(array.data) ELSE array.data
                 IN IF array.dtype = "float32" /\ ~InUnitInterval(data)
                    THEN /\ norm_pc' = "error"
                         /\ norm_error' = "AssertionError"
                         /\ norm_batch' = [array EXCEPT !.data = data]
                    ELSE /\ norm_pc' = "processed"
                         /\ norm_batch' =
                              [array EXCEPT
                                 !.data = Scaled(data, array.dtype, norm_self.dtype,
                                                 AutoFactor(array.dtype)),
                                 !.dtype = ProductDtype(norm_self.dtype)]
                         /\ UNCHANGED norm_error
    /\ UNCHANGED <<norm_self, upstream_array>>

NormNext == \/ NormConstruct /\ UNCHANGED <<cropvars, rejvars>>
            \/ NormProcess /\ UNCHANGED <<cropvars, rejvars>>

InitNorm == CropIdle /\ NormInit /\ RejIdle

SpecNorm == InitNorm /\ [][NormNext]_vars

(***************************************************************************)
(* NormalizeTo: properties                                                 *)
(***************************************************************************)

NormRan == norm_pc \in {"processed", "error"}

\* (v - in_center) * (out_width / in_width) + out_center
Affine(v, in_interval, out_interval) ==
    RAdd(RMul(RSub(v, Rat(in_interval[1] + in_interval[2], 2)),
              Rat(Abs(out_interval[2] - out_interval[1]),
                  Abs(in_interval[2] - in_interval[1]))),
         Rat(out_interval[1] + out_interval[2], 2))

\* C4: with an explicit input interval, process on a batch holding the array
\* completes without error, replaces every value by the affine transform and
\* leaves data of the configured output type.
C4_ExplicitIntervalAffine ==
    (NormRan /\ norm_self.in_interval # None)
    => /\ norm_pc = "processed"
       /\ norm_batch.data =
            [i \in Indices |-> Affine(upstream_array[i], norm_self.in_interval,
                                      norm_self.out_interval)]
       /\ norm_batch.dtype = norm_self.dtype

AutoMode == NormRan /\ norm_self.in_interval = None

Delivered == upstream_array.data

\* The data the scale is applied to: float32 data with minimum in [-1, 0) and
\* maximum <= 1 is first remapped by (x + 1) / 2.
Observed ==
    IF /\ upstream_array.dtype = "float32"
       /\ \E i \in Indices : Delivered[i][1] < 0
       /\ \A i \in Indices : /\ Delivered[i][1] >= -Delivered[i][2]
                             /\ Delivered[i][1] <= Delivered[i][2]
    THEN [i \in Indices |-> Rat(Delivered[i][1] + Delivered[i][2],
                                2 * Delivered[i][2])]
    ELSE Delivered

ObservedInUnit == \A i \in Indices : /\ Observed[i][1] >= 0
                                     /\ Observed[i][1] <= Observed[i][2]

\* The value the scale multiplies: the observed value itself, or (cast_first)
\* the observed value converted to the configured output type.
Operand(v, cast_first) ==
    IF cast_first /\ norm_self.dtype = "uint8"
    THEN <<(v[1] \div v[2]) % 256, 1>>
    ELSE v

\* process succeeded, the spec records the configured output type and each value
\* is the operand divided by `divisor`
AutoScaledBy(divisor, cast_first) ==
    /\ norm_pc = "processed"
    /\ norm_error = ""
    /\ norm_batch.spec_dtype = norm_self.dtype
    /\ norm_batch.data =
         [i \in Indices |->
            LET v == Operand(Observed[i], cast_first)
            IN Rat(v[1], v[2] * divisor)]

\* The outcome of automatic normalisation, by the element type delivered.
AutoClaim(cast_first) ==
    AutoMode =>
      CASE upstream_array.dtype = "uint8"   -> AutoScaledBy(255, cast_first)
        [] upstream_array.dtype = "uint16"  -> AutoScaledBy(65535, cast_first)
        [] upstream_array.dtype = "float32" ->
             IF ObservedInUnit
             THEN AutoScaledBy(1, cast_first)
             ELSE norm_pc = "error" /\ norm_error = "AssertionError"
        [] OTHER -> norm_pc = "error" /\ norm_error = "RuntimeError: dtype"

Calls == {1, 2}

\* Upstream answers at most MaxFetch requests of one provide call.
MaxFetch == 3

\* random.random() and reject_probability are multiples of 1/RandDen;
\* random.random() is in [0, 1), so it ranges over 0..RandDen-1.
RandDen == 4

\* The values of request.random_seed.
Seeds == {0, 1}

\* The k-th value of random.random() after random.seed(seed): a fixed stream per
\* seed.
Rand(seed, k) == (seed + 3 * k) % RandDen

\* A batch is the governed array after squeeze(): a tuple of rows.
ConstantBatch == <<<<2, 2>>, <<1, 3>>>>
EdgeBatch     == <<<<1, 3>>, <<0, 2>>>>
VariedBatch   == <<<<0, 2>>, <<-1, 1>>>>
Batches == {ConstantBatch, EdgeBatch, VariedBatch}

\* min_coefvar as a rational: the default 1e-04, and 1/2
Thresholds == {<<1, 10000>>, <<1, 2>>}

\* reject_probability as a multiple of 1/RandDen: 0, about a half, 1
RejectProbabilities == {0, RandDen \div 2, RandDen}

RECURSIVE SumOf(_)
SumOf(row) == IF row = <<>> THEN 0 ELSE Head(row) + SumOf(Tail(row))

Squares(row) == [i \in DOMAIN row |-> row[i] * row[i]]

\* line 74 and 76 for one row: abs(std) / clip(abs(mean), 1e-10) > threshold,
\* compared through squares. With n values of sum S and sum of squares Q,
\* std^2 = (n*Q - S*S) / n^2 and mean^2 = S*S / n^2. A non-zero mean of integer
\* data is above the floor 1e-10; with a zero mean the quotient is std * 1e10,
\* which exceeds every threshold of the model unless std is zero.
RowCoefvarExceeds(row, threshold) ==
    LET n == Len(row)
        S == SumOf(row)
        Q == SumOf(Squares(row))
    IN IF threshold[1] < 0 THEN TRUE
       ELSE IF S = 0 THEN n * Q > 0
       ELSE (n * Q - S * S) * threshold[2] * threshold[2]
              > threshold[1] * threshold[1] * S * S

\* HaveGoodBatch with >= for >: a batch at the threshold passes
HaveGoodBatchAtThreshold(batch, min_coefvar) ==
    \A r \in DOMAIN batch :
       \/ RowCoefvarExceeds(batch[r], min_coefvar)
       \/ LET S == SumOf(batch[r])
              Q == SumOf(Squares(batch[r]))
          IN /\ S # 0
             /\ (Len(batch[r]) * Q - S * S) * min_coefvar[2] * min_coefvar[2]
                  = min_coefvar[1] * min_coefvar[1] * S * S

\* line 76: coefvar.min() > self.min_coefvar
HaveGoodBatch(batch, min_coefvar) ==
    \A r \in DOMAIN batch : RowCoefvarExceeds(batch[r], min_coefvar)

\* line 79: random.random() > self.reject_probability
OverrideAccepts(r, reject_probability) == r > reject_probability

NoCall == [pc |-> "idle", random_seed |-> 0, has_array |-> TRUE,
           num_rejected |-> 0, fetched |-> 0, batch |-> None]

RejInit ==
    /\ rej_self \in [min_coefvar : Thresholds,
                     reject_probability : RejectProbabilities]
    /\ upstream \in [1..MaxFetch -> Batches]
    /\ rng = <<0, 0>>
    /\ call = [c \in Calls |-> NoCall]

\* provide, lines 56-65, called with a request of the given seed that holds the
\* array or not: seed the random source when rejection is probabilistic, then
\* check that the request holds the array
Enter(c, random_seed, has_array) ==
    /\ call[c].pc = "idle"
    /\ rng' = IF rej_self.reject_probability < RandDen
              THEN <<random_seed, 0>> ELSE rng
    /\ call' = [call EXCEPT ![c].pc = IF has_array THEN "loop" ELSE "raised",
                            ![c].random_seed = random_seed,
                            ![c].has_array = has_array]
    /\ UNCHANGED <<rej_self, upstream, cropvars, normvars>>

\* provide is called
Call(c) == \E random_seed \in Seeds, has_array \in BOOLEAN :
              Enter(c, random_seed, has_array)

\* Decided with a rejection that leaves the loop all the same
DecidedLeavesLoop(this, have_good_batch) ==
    IF have_good_batch
    THEN [this EXCEPT !.pc = "done"]
    ELSE [this EXCEPT !.pc = "done", !.num_rejected = this.num_rejected + 1]

\* provide, lines 81-100: the end of one iteration, on the call's record
Decided(this, have_good_batch) ==
    IF have_good_batch
    THEN [this EXCEPT !.pc = "done"]
    ELSE [this EXCEPT !.pc = "loop", !.num_rejected = this.num_rejected + 1]

\* provide, lines 71-78: request a batch and test its coefficient of variation
Fetch(c) ==
    /\ call[c].pc = "loop"
    /\ call[c].fetched < MaxFetch
    /\ LET batch == upstream[call[c].fetched + 1]
           this == [call[c] EXCEPT !.batch = batch, !.fetched = call[c].fetched + 1]
           have_good_batch == HaveGoodBatch(batch, rej_self.min_coefvar)
       IN IF ~have_good_batch /\ rej_self.reject_probability < RandDen
          THEN call' = [call EXCEPT ![c] = [this EXCEPT !.pc = "draw"]]
          ELSE call' = [call EXCEPT ![c] = Decided(this, have_good_batch)]
    /\ UNCHANGED <<rej_self, upstream, rng, cropvars, normvars>>

\* provide, line 79: the probabilistic override
Draw(c) ==
    /\ call[c].pc = "draw"
    /\ LET r == Rand(rng[1], rng[2])
       IN call' = [call EXCEPT ![c] =
                     Decided(call[c],
                             OverrideAccepts(r, rej_self.reject_probability))]
    /\ rng' = <<rng[1], rng[2] + 1>>
    /\ UNCHANGED <<rej_self, upstream, cropvars, normvars>>

\* The steps of a provide call once it has been made
Provide(c) == Fetch(c) \/ Draw(c)

RejNext == \/ \E c \in Calls : Call(c)
           \/ \E c \in Calls : Fetch(c)
           \/ \E c \in Calls : Draw(c)

InitReject == CropIdle /\ NormIdle /\ RejInit

SpecReject == InitReject /\ [][RejNext]_vars

\* A provide call runs on: the interpreter keeps executing it.
LiveSpecReject == SpecReject /\ \A c \in Calls : WF_vars(Provide(c))

(***************************************************************************)
(* RejectConstant: properties                                              *)
(***************************************************************************)

\* The minimum per-row coefficient of variation of each batch of the model,
\* worked out by hand: rows <<2,2>>: 0, <<1,3>>: 1/2, <<0,2>>: 1, and <<-1,1>>
\* (mean 0, floored to 1e-10) far above 1.
MinCoefvar(batch) ==
    CASE batch = ConstantBatch -> <<0, 1>>
      [] batch = EdgeBatch     -> <<1, 2>>
      [] batch = VariedBatch   -> <<1, 1>>

\* The batch's minimum coefficient of variation strictly exceeds min_coefvar.
Exceeds(batch) ==
    MinCoefvar(batch)[1] * rej_self.min_coefvar[2]
      > rej_self.min_coefvar[1] * MinCoefvar(batch)[2]

Strict == rej_self.reject_probability = RandDen

\* C5: with reject_probability = 1, provide returns the first batch, in fetch
\* order, whose minimum coefficient of variation strictly exceeds min_coefvar:
\* every batch fetched before it was rejected, one request was issued per
\* rejection plus one for the accepted batch, and none after it.
C5_ReturnsFirstGoodBatch ==
    Strict =>
      \A c \in Calls :
        /\ call[c].pc = "done"
             => /\ call[c].batch = upstream[call[c].fetched]
                /\ Exceeds(call[c].batch)
                /\ \A j \in 1..(call[c].fetched - 1) : ~Exceeds(upstream[j])
                /\ call[c].num_rejected = call[c].fetched - 1
        /\ call[c].pc = "loop"
             => /\ \A j \in 1..call[c].fetched : ~Exceeds(upstream[j])
                /\ call[c].num_rejected = call[c].fetched

\* A strict call returned a batch after rejecting a constant batch and a batch
\* whose minimum equals the threshold.
C5_Witness ==
    /\ Strict
    /\ rej_self.min_coefvar = <<1, 2>>
    /\ \E c \in Calls : /\ call[c].pc = "done"
                        /\ call[c].num_rejected = 2
                        /\ upstream[1] = ConstantBatch
                        /\ upstream[2] = EdgeBatch

\* C6: with reject_probability = 0, provide accepts the first batch fetched:
\* no batch is rejected and exactly one upstream request is issued.
C6_NeverRejects ==
    rej_self.reject_probability = 0 =>
      \A c \in Calls : /\ call[c].num_rejected = 0
                       /\ call[c].pc = "done" => call[c].fetched = 1

\* C7: for reject_probability < 1, two provide calls with the same seed against
\* the same upstream sequence make the same accept/reject decisions (reject
\* num_rejected times, then accept), whatever else ran in between. Stated for
\* 0 < reject_probability < 1, where the override is a real random choice.
C7_SameSeedSameDecisions ==
    (0 < rej_self.reject_probability /\ rej_self.reject_probability < RandDen) =>
      \A c, d \in Calls :
        (/\ call[c].pc = "done"
         /\ call[d].pc = "done"
         /\ call[c].random_seed = call[d].random_seed)
        => call[c].num_rejected = call[d].num_rejected

InLoop(c) == call[c].pc \in {"loop", "draw"}

GoodAhead(c) == \E j \in (call[c].fetched + 1)..MaxFetch : Exceeds(upstream[j])

\* C9: with reject_probability = 1, (a) a call returns only a batch that
\* exceeds the threshold, and a call in the loop never raises; (b) if upstream
\* supplies such a batch the call eventually returns; (c) if upstream supplies
\* none, the call keeps issuing requests and is still looping when the model's
\* horizon of MaxFetch requests is reached.
C9_TerminatesIffGoodBatch ==
    /\ [](Strict => \A c \in Calls :
                      /\ call[c].pc = "done" => Exceeds(call[c].batch)
                      /\ call[c].fetched > 0 => call[c].pc # "raised")
    /\ \A c \in Calls :
         (Strict /\ InLoop(c) /\ GoodAhead(c)) ~> (call[c].pc = "done")
    /\ \A c \in Calls :
         (Strict /\ InLoop(c) /\ ~GoodAhead(c))
           ~> (call[c].pc = "loop" /\ call[c].num_rejected = MaxFetch)

\* A strict call is still requesting after MaxFetch rejections.
C9_Witness ==
    /\ Strict
    /\ \E c \in Calls : /\ call[c].pc = "loop"
                        /\ call[c].num_rejected = MaxFetch

====
